---- MODULE Spec2Model ----
(***************************************************************************)
(* default_vec2: DefaultVec (src/default_vec.rs) and FlagVec               *)
(* (src/flag_vec.rs).                                                      *)
(*                                                                         *)
(* A u32 (type Elt) is modelled as the set of its bit positions that are   *)
(* 1, a subset of 0..31: `&` is intersection, `|` is union, `!` is the     *)
(* complement in 0..31, and the shifts move positions and drop whatever    *)
(* leaves 0..31.  Nothing is lost by this: every u32 is exactly one such   *)
(* set.                                                                    *)
(*                                                                         *)
(* A panic ends the operation that raises it.  Operators that can panic    *)
(* return a record with a `panic` field; the actions record it in          *)
(* `panicked`, after which only a fresh construction is possible.          *)
(***************************************************************************)
EXTENDS Integers, Sequences, FiniteSets

VARIABLES
    overflow_checks, \* build profile: TRUE when arithmetic overflow panics (debug)
    fv,              \* the FlagVec under observation: [n |-> width, words |-> DefaultVec<Elt>]
    lastOp,          \* name of the FlagVec operation that produced this state
    panicked,        \* TRUE when that operation panicked
    pre,             \* width and word capacity of fv before that operation
    dv,              \* two DefaultVec<u32>: dv[1], dv[2]
    ghost,           \* per DefaultVec: index -> last value written since the last clear
    last             \* the DefaultVec operation that produced this state

fvVars == <<overflow_checks, fv, lastOp, panicked, pre>>
dvVars == <<dv, ghost, last>>
vars == <<overflow_checks, fv, lastOp, panicked, pre, dv, ghost, last>>

---------------------------------------------------------------------------
(* Bounds of the model *)

MaxIdx == 2         \* slot indexes passed to FlagVec operations are 0..MaxIdx
MaxSlack == 1       \* Vec::reserve may allocate up to MaxSlack elements more than asked
MaxKey == 1         \* indexes passed to DefaultVec operations are 0..MaxKey
MaxCap == 4         \* two DefaultVecs stop cloning from each other at this capacity

Idx == 0..MaxIdx
Keys == 0..MaxKey
Obs == 0..(2 * MaxIdx + 1)  \* the slots a FlagVec is observed at
ObsKeys == 0..MaxCap        \* the indexes a DefaultVec is observed at

---------------------------------------------------------------------------
(* u32 as a set of bit positions *)

WordBits == 32
Bits == 0..(WordBits - 1)

RECURSIVE Pow2(_)
Pow2(k) == IF k = 0 THEN 1 ELSE 2 * Pow2(k - 1)

\* the u32 with the value m, for 0 <= m < 2^31
U32(m) == {i \in 0..(WordBits - 2) : (m \div Pow2(i)) % 2 = 1}

AllOnes == Bits     \* u32::MAX
T_default == {}     \* u32::default() == 0

BitNot(a) == Bits \ a

\* a << k and a >> k once the shift amount is known to be in range
Shl(a, k) == {i + k : i \in a} \cap Bits
Shr(a, k) == {i - k : i \in a} \cap Bits

\* a - 1 for a # 0: the lowest set bit is cleared and every bit below it is set
Sub1(a) == LET m == CHOOSE i \in a : \A j \in a : i <= j
           IN (a \ {m}) \cup 0..(m - 1)

\* The shift amount the machine uses: a shift by k >= 32 panics when overflow
\* is checked, and otherwise shifts by k modulo 32.
ShiftOverflows(k) == k >= WordBits
ShiftAmount(k) == k % WordBits

---------------------------------------------------------------------------
(* FlagLength: base_mask, chunk_size, split *)

base_mask(n) ==
    [panic |-> overflow_checks /\ ShiftOverflows(n),
     val   |-> Sub1(Shl({0}, ShiftAmount(n)))]

\* Elt::BITS / len: division by zero panics in every build
chunk_size(n) ==
    IF n = 0 THEN [panic |-> TRUE, val |-> 0]
    ELSE [panic |-> FALSE, val |-> WordBits \div n]

\* split with the offset left in slots instead of bits (the `* self.len()`
\* dropped)
split_unscaled(n, x) ==
    LET cs == chunk_size(n)
    IN IF cs.panic \/ cs.val = 0
       THEN [panic |-> TRUE, chunk_idx |-> 0, offset |-> 0]
       ELSE [panic |-> FALSE,
             chunk_idx |-> x \div cs.val,
             offset |-> x % cs.val]

\* x % chunk_size panics in every build when chunk_size is 0 (n > 32)
split(n, x) ==
    LET cs == chunk_size(n)
    IN IF cs.panic \/ cs.val = 0
       THEN [panic |-> TRUE, chunk_idx |-> 0, offset |-> 0]
       ELSE [panic |-> FALSE,
             chunk_idx |-> x \div cs.val,
             offset |-> (x % cs.val) * n]

---------------------------------------------------------------------------
(* DefaultVec<u32>: the boxed slice is a sequence; index i is element i+1 *)

DefaultVec_default == << >>

DefaultVec_capacity(self) == Len(self)

\* reserve that allocates afresh and does not carry the old elements over
reserve_fresh(self, i) ==
    { [k \in 1..c |-> T_default] : c \in (i + 1)..(i + 1 + MaxSlack) }

\* Vec::reserve guarantees capacity >= i + 1 and may allocate more; the
\* vector is then resized to its whole capacity with T::default().
reserve(self, i) ==
    { [k \in 1..c |-> IF k <= Len(self) THEN self[k] ELSE T_default]
        : c \in (i + 1)..(i + 1 + MaxSlack) }

\* the backing slices get_mut can leave behind; the caller then writes slot i
get_mut(self, i) ==
    IF i < Len(self) THEN {self} ELSE reserve(self, i)

DefaultVec_get(self, i) ==
    IF i < Len(self) THEN self[i + 1] ELSE T_default

DefaultVec_clear(self) == [k \in 1..Len(self) |-> T_default]

\* clone_from as `*self = source.clone()`: the target's allocation is replaced
DefaultVec_clone_from_realloc(self, source) == {source}

\* clone_from without the loop that resets the target's tail
DefaultVec_clone_from_keep_tail(self, source) ==
    LET grown == IF DefaultVec_capacity(source) > DefaultVec_capacity(self)
                 THEN reserve(self, DefaultVec_capacity(source))
                 ELSE {self}
    IN { [k \in 1..Len(g) |-> IF k <= Len(source) THEN source[k] ELSE g[k]]
           : g \in grown }

DefaultVec_clone_from(self, source) ==
    LET grown == IF DefaultVec_capacity(source) > DefaultVec_capacity(self)
                 THEN reserve(self, DefaultVec_capacity(source))
                 ELSE {self}
    IN { [k \in 1..Len(g) |-> IF k <= Len(source) THEN source[k] ELSE T_default]
           : g \in grown }

\* eq as the derived comparison of the two boxed slices
DefaultVec_eq_derived(self, other) == self = other

DefaultVec_eq(self, other) ==
    LET long  == IF Len(self) < Len(other) THEN other ELSE self
        short == IF Len(self) < Len(other) THEN self ELSE other
    IN /\ \A k \in 1..Len(short) : short[k] = long[k]
       /\ \A k \in (Len(short) + 1)..Len(long) : long[k] = T_default

\* *r = v through the reference get_mut returned
Write(arr, i, v) == [arr EXCEPT ![i + 1] = v]

---------------------------------------------------------------------------
(* FlagVec.  Every operation returns the set of its possible outcomes      *)
(* [store, panic] (more than one only through reserve's capacity), the     *)
(* reads a record [panic, val].                                            *)

FlagVec_new(flag_bit_len) == [n |-> flag_bit_len, words |-> DefaultVec_default]

Panic(store) == [store |-> store, panic |-> TRUE]
Ok(store) == [store |-> store, panic |-> FALSE]

\* *chunk |= mask
or_chunk(chunk, mask) == chunk \cup mask
\* *chunk &= !mask
and_not_chunk(chunk, mask) == chunk \cap BitNot(mask)

\* or_assign that shifts v in without masking it
FlagVec_or_assign_unmasked(self, x, v) ==
    LET sp == split(self.n, x)
        bm == base_mask(self.n)
    IN IF sp.panic \/ bm.panic THEN {Panic(self)}
       ELSE LET mask == Shl(v, sp.offset)
            IN { Ok([self EXCEPT !.words =
                        Write(w, sp.chunk_idx, or_chunk(w[sp.chunk_idx + 1], mask))])
                   : w \in get_mut(self.words, sp.chunk_idx) }

FlagVec_or_assign(self, x, v) ==
    LET sp == split(self.n, x)
        bm == base_mask(self.n)
    IN IF sp.panic \/ bm.panic THEN {Panic(self)}
       ELSE LET mask == Shl(bm.val \cap v, sp.offset)
            IN { Ok([self EXCEPT !.words =
                        Write(w, sp.chunk_idx, or_chunk(w[sp.chunk_idx + 1], mask))])
                   : w \in get_mut(self.words, sp.chunk_idx) }

FlagVec_and_assign(self, x, v) ==
    LET sp == split(self.n, x)
        bm == base_mask(self.n)
    IN IF sp.panic \/ bm.panic THEN {Panic(self)}
       ELSE LET mask == Shl(bm.val \cap BitNot(v), sp.offset)
            IN { Ok([self EXCEPT !.words =
                        Write(w, sp.chunk_idx, and_not_chunk(w[sp.chunk_idx + 1], mask))])
                   : w \in get_mut(self.words, sp.chunk_idx) }

FlagVec_set(self, x, v) ==
    LET sp == split(self.n, x)
        bm == base_mask(self.n)
    IN IF sp.panic \/ bm.panic THEN {Panic(self)}
       ELSE LET mask_or  == Shl(bm.val \cap v, sp.offset)
                mask_and == Shl(bm.val \cap BitNot(v), sp.offset)
            IN { Ok([self EXCEPT !.words =
                        Write(w, sp.chunk_idx,
                              and_not_chunk(or_chunk(w[sp.chunk_idx + 1], mask_or),
                                            mask_and))])
                   : w \in get_mut(self.words, sp.chunk_idx) }

FlagVec_get(self, x) ==
    LET sp == split(self.n, x)
        bm == base_mask(self.n)
    IN IF sp.panic \/ bm.panic THEN [panic |-> TRUE, val |-> T_default]
       ELSE [panic |-> FALSE,
             val |-> Shr(DefaultVec_get(self.words, sp.chunk_idx), sp.offset)
                        \cap bm.val]

\* get_mut runs (and may grow the storage) before base_mask is evaluated
FlagVec_get_reserve(self, x) ==
    LET sp == split(self.n, x)
        bm == base_mask(self.n)
    IN IF sp.panic THEN {Panic(self)}
       ELSE { [store |-> [self EXCEPT !.words = w], panic |-> bm.panic]
                : w \in get_mut(self.words, sp.chunk_idx) }

FlagVec_clear(self) == [self EXCEPT !.words = DefaultVec_clear(self.words)]

FlagVec_capacity(self) ==
    LET cs == chunk_size(self.n)
    IN [panic |-> cs.panic, val |-> DefaultVec_capacity(self.words) * cs.val]

FlagVec_clone_from(self, source) ==
    { [n |-> source.n, words |-> w]
        : w \in DefaultVec_clone_from(self.words, source.words) }

\* the closure of iter(): cnt values unpacked from the word x, lowest first
RECURSIVE unpack(_, _, _)
unpack(x, n, cnt) ==
    IF cnt = 0 THEN << >>
    ELSE <<x \cap base_mask(n).val>> \o unpack(Shr(x, ShiftAmount(n)), n, cnt - 1)

RECURSIVE flat_map(_, _, _)
flat_map(words, n, cnt) ==
    IF words = << >> THEN << >>
    ELSE unpack(Head(words), n, cnt) \o flat_map(Tail(words), n, cnt)

\* iter() collected.  The closure runs once per word, so nothing is
\* evaluated (and nothing can panic) when there is no word.
FlagVec_iter(self) ==
    LET cs == chunk_size(self.n)
    IN IF self.words = << >> THEN [panic |-> FALSE, val |-> << >>]
       ELSE IF cs.panic THEN [panic |-> TRUE, val |-> << >>]
       ELSE IF cs.val = 0 THEN [panic |-> FALSE, val |-> << >>]
       ELSE IF base_mask(self.n).panic
                 \/ (overflow_checks /\ ShiftOverflows(self.n))
            THEN [panic |-> TRUE, val |-> << >>]
       ELSE [panic |-> FALSE, val |-> flat_map(self.words, self.n, cs.val)]

---------------------------------------------------------------------------
(* Inputs *)

Widths == {0, 1, 4, 12, 31, 32, 33}
Vals == {U32(18), AllOnes}

\* Stores a clone_from source can be: constructed with any of the widths,
\* then either left empty or written once, at the first or the last index
SourceStores ==
    UNION { {FlagVec_new(n)}
            \cup { r.store : r \in UNION { FlagVec_set(FlagVec_new(n), x, AllOnes)
                                            : x \in {0, MaxIdx} } }
          : n \in Widths }

-------------------------------------------------------------------------------------------------------------------------------------------------
(* FlagVec actions *)

Snapshot(store) == [n |-> store.n, cap |-> DefaultVec_capacity(store.words)]

Step(op, outcomes) ==
    /\ ~panicked
    /\ \E r \in outcomes :
         /\ fv' = r.store
         /\ panicked' = r.panic
    /\ lastOp' = op
    /\ pre' = Snapshot(fv)
    /\ UNCHANGED <<overflow_checks, dvVars>>

\* DynamicFlagVec::new / StaticFlagVec::default: a fresh store replaces fv
New ==
    /\ \E n \in Widths : fv' = FlagVec_new(n)
    /\ lastOp' = "new"
    /\ panicked' = FALSE
    /\ pre' = Snapshot(fv')
    /\ UNCHANGED <<overflow_checks, dvVars>>

Set == \E x \in Idx, v \in Vals : Step("set", FlagVec_set(fv, x, v))

OrAssign == \E x \in Idx, v \in Vals : Step("or_assign", FlagVec_or_assign(fv, x, v))

AndAssign == \E x \in Idx, v \in Vals : Step("and_assign", FlagVec_and_assign(fv, x, v))

GetReserve == \E x \in Idx : Step("get_reserve", FlagVec_get_reserve(fv, x))

Get == \E x \in Idx : Step("get", {[store |-> fv, panic |-> FlagVec_get(fv, x).panic]})

Clear == Step("clear", {Ok(FlagVec_clear(fv))})

Capacity == Step("capacity", {[store |-> fv, panic |-> FlagVec_capacity(fv).panic]})

Iter == Step("iter", {[store |-> fv, panic |-> FlagVec_iter(fv).panic]})

CloneFrom ==
    \E source \in SourceStores :
        Step("clone_from", {Ok(s) : s \in FlagVec_clone_from(fv, source)})

FvIdle ==
    /\ overflow_checks = FALSE
    /\ fv = FlagVec_new(1)
    /\ lastOp = "new"
    /\ panicked = FALSE
    /\ pre = Snapshot(fv)

DvIdle ==
    /\ dv = <<DefaultVec_default, DefaultVec_default>>
    /\ ghost = [t \in {1, 2} |-> [i \in ObsKeys |-> T_default]]
    /\ last = [op |-> "default", tgt |-> 1, grew |-> FALSE]

Init ==
    /\ overflow_checks \in BOOLEAN
    /\ \E n \in Widths : fv = FlagVec_new(n)
    /\ lastOp = "new"
    /\ panicked = FALSE
    /\ pre = Snapshot(fv)
    /\ DvIdle

Next ==
    \/ New
    \/ Set
    \/ OrAssign
    \/ AndAssign
    \/ GetReserve
    \/ Get
    \/ Clear
    \/ Capacity
    \/ Iter
    \/ CloneFrom

Spec == Init /\ [][Next]_vars

---------------------------------------------------------------------------
(* DefaultVec actions on dv[1] and dv[2]; ghost is the map each one stands for *)

DvVals == {T_default, U32(3), U32(7)}

Other(t) == 3 - t

DvStep(op, t, grew, arr, map) ==
    /\ dv' = [dv EXCEPT ![t] = arr]
    /\ ghost' = [ghost EXCEPT ![t] = map]
    /\ last' = [op |-> op, tgt |-> t, grew |-> grew]
    /\ UNCHANGED fvVars

\* *dv[t].get_mut(i) = v
DvGetMut ==
    \E t \in {1, 2}, i \in Keys, v \in DvVals :
        \E w \in get_mut(dv[t], i) :
            DvStep("get_mut", t, i >= DefaultVec_capacity(dv[t]),
                   Write(w, i, v), [ghost[t] EXCEPT ![i] = v])

DvGet ==
    \E t \in {1, 2} : DvStep("get", t, FALSE, dv[t], ghost[t])

DvClear ==
    \E t \in {1, 2} :
        DvStep("clear", t, FALSE, DefaultVec_clear(dv[t]),
               [i \in ObsKeys |-> T_default])

\* dv[t].clone_from(&dv[Other(t)])
DvCloneFrom ==
    \E t \in {1, 2} :
        \E r \in DefaultVec_clone_from(dv[t], dv[Other(t)]) :
            /\ DefaultVec_capacity(r) <= MaxCap
            /\ DvStep("clone_from", t,
                      DefaultVec_capacity(dv[Other(t)]) > DefaultVec_capacity(dv[t]),
                      r, ghost[Other(t)])

InitDV == FvIdle /\ DvIdle

NextDV ==
    \/ DvGetMut
    \/ DvGet
    \/ DvClear
    \/ DvCloneFrom

SpecDV == InitDV /\ [][NextDV]_vars

---------------------------------------------------------------------------
(* Properties of the FlagVec, checked under Spec *)

ValidWidth(n) == 1 <= n /\ n <= WordBits

\* the mathematical value (1 << n) - 1: the n low bits
LowBits(n) == 0..(n - 1)

Live == ~panicked /\ ValidWidth(fv.n)

Returned(val) == [panic |-> FALSE, val |-> val]

\* two stores hold the same value in every observed slot
SameSlots(s1, s2) == \A y \in Obs : FlagVec_get(s1, y) = FlagVec_get(s2, y)

\* self.set(x, self.get(x) | v) and self.set(x, self.get(x) & v): the
\* argument is evaluated first, and its panic is the panic of the whole
set_merged(self, x, merged) ==
    IF FlagVec_get(self, x).panic THEN {Panic(self)}
    ELSE FlagVec_set(self, x, merged)

RoundTripAt(store) ==
    \A x \in Idx, v \in Vals :
        \A r \in FlagVec_set(store, x, v) :
            /\ ~r.panic
            /\ FlagVec_get(r.store, x) = Returned(v \cap LowBits(store.n))

\* C1: for every width 1 <= N <= 32, in every reachable state, set(x, v)
\* followed by get(x) returns v & ((1 << N) - 1).
C1_SetGetRoundTrip == Live => RoundTripAt(fv)

\* The same round trip for the widths below the word size.
RoundTripBelowWordBits == (Live /\ fv.n < WordBits) => RoundTripAt(fv)

\* C2: for every valid width and every reachable state, set(x, v) leaves
\* get(y) as it was for every slot y # x, in the same word or another one,
\* whether or not the call grows the storage.
C2_SetFrame ==
    Live =>
        \A x \in Idx, v \in Vals :
            \A r \in FlagVec_set(fv, x, v) :
                \A y \in Obs \ {x} :
                    FlagVec_get(r.store, y) = FlagVec_get(fv, y)

\* A set has just written next to two other non-zero slots, one in the same
\* word and one in another word.
C2_Witness ==
    /\ Live /\ lastOp = "set" /\ fv.n = 12
    /\ DefaultVec_capacity(fv.words) >= 2
    /\ FlagVec_get(fv, 0).val = U32(18)
    /\ FlagVec_get(fv, 1).val = LowBits(12)
    /\ FlagVec_get(fv, 2).val = U32(18)

MergeAt(store) ==
    \A x \in Idx, v \in Vals :
        LET old == FlagVec_get(store, x).val
        IN /\ \A r1 \in FlagVec_or_assign(store, x, v) :
                /\ \A r2 \in set_merged(store, x, old \cup v) :
                       r1.panic = r2.panic /\ SameSlots(r1.store, r2.store)
                /\ ~r1.panic
                /\ FlagVec_get(r1.store, x)
                       = Returned(old \cup (v \cap LowBits(store.n)))
           /\ \A r1 \in FlagVec_and_assign(store, x, v) :
                /\ \A r2 \in set_merged(store, x, old \cap v) :
                       r1.panic = r2.panic /\ SameSlots(r1.store, r2.store)
                /\ ~r1.panic
                /\ FlagVec_get(r1.store, x)
                       = Returned(old \cap (v \cap LowBits(store.n)))

\* C3: from every reachable state or_assign(x, v) leaves every slot as
\* set(x, get(x) | v) does and and_assign(x, v) as set(x, get(x) & v) does;
\* slot x becomes old | (v & mask), respectively old & (v & mask).
C3_MergeEqualsSet == Live => MergeAt(fv)

\* The same for the widths below the word size.
MergeBelowWordBits == (Live /\ fv.n < WordBits) => MergeAt(fv)

\* The two merges agree with set on every slot at every valid width, the
\* word size included.
MergeAgreesWithSet ==
    Live =>
        \A x \in Idx, v \in Vals :
            LET old == FlagVec_get(fv, x).val
            IN /\ \A r1 \in FlagVec_or_assign(fv, x, v),
                     r2 \in set_merged(fv, x, old \cup v) :
                       r1.panic = r2.panic /\ SameSlots(r1.store, r2.store)
               /\ \A r1 \in FlagVec_and_assign(fv, x, v),
                     r2 \in set_merged(fv, x, old \cap v) :
                       r1.panic = r2.panic /\ SameSlots(r1.store, r2.store)

\* C4: in every state reached from an empty store by set, or_assign,
\* and_assign, get_reserve, clear and clone_from, every backing word has all
\* bits at positions >= chunk_size * N equal to 0.
C4_UnusedHighBitsZero ==
    fv.n >= 1 =>
        \A k \in 1..Len(fv.words) :
            fv.words[k] \cap ((chunk_size(fv.n).val * fv.n)..(WordBits - 1)) = {}

\* An or_assign of an over-wide value has filled both slots of a word of
\* width 12, whose 8 high bits are unused.
C4_Witness ==
    /\ lastOp = "or_assign" /\ ~panicked /\ fv.n = 12
    /\ DefaultVec_capacity(fv.words) >= 1
    /\ fv.words[1] = LowBits(24)

IterAt(store) ==
    LET it  == FlagVec_iter(store)
        cap == FlagVec_capacity(store)
    IN /\ ~it.panic /\ ~cap.panic
       /\ Len(it.val) = cap.val
       /\ \A i \in 0..(cap.val - 1) :
            FlagVec_get(store, i) = Returned(it.val[i + 1])

\* C5: in every reachable state iter() produces exactly capacity() values,
\* and the i-th one is get(i).
C5_IterMatchesGet == Live => IterAt(fv)

\* The same wherever base_mask does not overflow.
IterBelowWordBits == (Live /\ (fv.n < WordBits \/ ~overflow_checks)) => IterAt(fv)

SlotCapacity(store) == FlagVec_capacity(store).val

\* C9: over any operation on one store (a clone_from from a store of another
\* width included), neither the word capacity nor capacity() in slots is
\* smaller after the operation than before it.
C9_CapacityNeverShrinks ==
    [][(lastOp' # "new" /\ ValidWidth(fv.n) /\ ValidWidth(fv'.n)) =>
          /\ DefaultVec_capacity(fv'.words) >= DefaultVec_capacity(fv.words)
          /\ SlotCapacity(fv') >= SlotCapacity(fv)]_vars

\* C9 as amended: the word capacity never shrinks, and capacity() in slots
\* never shrinks over an operation that leaves the width as it was.
C9_CapacityNeverShrinksAtWidth ==
    [][lastOp' # "new" =>
          /\ DefaultVec_capacity(fv'.words) >= DefaultVec_capacity(fv.words)
          /\ (fv'.n = fv.n /\ fv.n >= 1 => SlotCapacity(fv') >= SlotCapacity(fv))]_vars

\* A clone_from from a store of another width has kept every word of a
\* non-empty store.
C9_Witness ==
    /\ lastOp = "clone_from" /\ ~panicked
    /\ pre.n # fv.n /\ ValidWidth(pre.n) /\ ValidWidth(fv.n)
    /\ pre.cap >= 1
    /\ DefaultVec_capacity(fv.words) = pre.cap

\* C10: a store of width 0 or of a width above 32 never exists: its
\* construction fails.
C10_InvalidWidthRejected ==
    ~ValidWidth(fv.n) => (lastOp = "new" /\ panicked)

---------------------------------------------------------------------------
(* Properties of the DefaultVec, checked under SpecDV *)

\* C6: a DefaultVec is the total map its writes describe: get(i) is the last
\* value written to i since the last clear, and the default for every other
\* index, at or beyond the capacity too; a write at i changes no other index.
C6_TotalMap ==
    \A t \in {1, 2} : \A i \in ObsKeys : DefaultVec_get(dv[t], i) = ghost[t][i]

\* A write at index 1 has grown dv[1], which held and still holds another
\* value at index 0.
C6_Witness ==
    /\ last = [op |-> "get_mut", tgt |-> 1, grew |-> TRUE]
    /\ DefaultVec_get(dv[1], 0) = U32(3)
    /\ DefaultVec_get(dv[1], 1) = U32(7)

\* C7: a.clone_from(&b) leaves a == b and a.get(i) == b.get(i) for every i,
\* whether a was smaller or larger than b, and leaves b as it was.
C7_CloneFromEqual ==
    [][last'.op = "clone_from" =>
          LET a == dv'[last'.tgt]
              b == dv'[Other(last'.tgt)]
          IN /\ DefaultVec_eq(a, b)
             /\ DefaultVec_eq(b, a)
             /\ \A i \in ObsKeys : DefaultVec_get(a, i) = DefaultVec_get(b, i)
             /\ b = dv[Other(last'.tgt)]]_vars

\* A clone_from into the larger of the two, from a source that holds a
\* value, has not grown the target.
C7_Witness ==
    /\ last.op = "clone_from" /\ ~last.grew
    /\ DefaultVec_capacity(dv[last.tgt]) > DefaultVec_capacity(dv[Other(last.tgt)])
    /\ DefaultVec_get(dv[Other(last.tgt)], 0) = U32(7)

\* C8: a == b exactly when a.get(i) == b.get(i) for every index i, whatever
\* the two capacities.
C8_EqIsExtensional ==
    \A t \in {1, 2} :
        DefaultVec_eq(dv[t], dv[Other(t)])
            <=> \A i \in ObsKeys :
                    DefaultVec_get(dv[t], i) = DefaultVec_get(dv[Other(t)], i)

\* dv[1], grown by writes that have all been written back to the default,
\* equals the empty dv[2].
C8_Witness ==
    /\ last.op = "get_mut" /\ last.tgt = 1
    /\ DefaultVec_capacity(dv[1]) >= 2
    /\ DefaultVec_capacity(dv[2]) = 0
    /\ DefaultVec_eq(dv[1], dv[2])
    /\ \E i \in Keys : ghost[1][i] = T_default /\ i < DefaultVec_capacity(dv[1])

====
